---- MODULE Spec2Model ----
(***************************************************************************)
(* CombineNode (src/index.js): a tree node of the BEM naming convention    *)
(* with a namespaced property store, a children list, a mixin list and a   *)
(* directive registry, and the derived tag / class / style computations    *)
(* that fold over [self] ++ mixins.                                        *)
(*                                                                         *)
(* JavaScript strings that the code inspects character by character (node  *)
(* names, property names, values, rendered markup) are sequences of        *)
(* one-character strings.  A JavaScript object used as a map is an ordered *)
(* sequence of <<key, value>> pairs (own properties in insertion order);   *)
(* a lookup obj[key] that finds no own property falls through to           *)
(* Object.prototype.  An array that the code stores by reference is a cell *)
(* of the heap.                                                            *)
(***************************************************************************)
EXTENDS Integers, Sequences, FiniteSets, TLC

VARIABLES
    nodes,    \* the CombineNode objects constructed so far, by identity 1, 2, ...
    heap,     \* the arrays that are stored or passed by reference
    ret,      \* what the last call returned or threw
    loop,     \* the position of a running for-of loop over getAllMixedNodes()
    written   \* history: per node, the latest <<namespace, name, value>> of every setProp

vars == <<nodes, heap, ret, loop, written>>

(***************************************************************************)
(* Bounds of the model: how far each specification lets the builder go.    *)
(***************************************************************************)
MaxNodes      == 1   \* Spec: nodes constructed
MaxSize       == 2   \* Spec: entries, mixins, directives, children together
StoreEntries  == 2   \* SpecStore: property entries of all nodes together
TreeChilds    == 2   \* SpecTree: children pushed onto all arrays together
TreeArrays    == 1   \* SpecTree: arrays built by the caller
MixEntries    == 3   \* SpecMix: property entries of all nodes together
MixMixins     == 2   \* SpecMix: mixin entries of all nodes together
RenderEntries == 2   \* SpecRender: property entries of all nodes together
RenderMixins  == 1   \* SpecRender: mixin entries of all nodes together
FoldMixins    == 2   \* SpecFold: mixin entries of all nodes together

(***************************************************************************)
(* Inputs.                                                                 *)
(***************************************************************************)
Names == { <<>>, <<"B">>, <<"a">>, <<"1">>, <<"a", "B">> }

TagKey == <<"t", "a", "g">>

CamelKey == <<"a", "B">>

PropNames == { TagKey, CamelKey }

Values == { <<"x">>, <<"y">> }

\* "constructor" stands for the names every object inherits from
\* Object.prototype.  A namespace that shadows a method the code calls on
\* _props ("hasOwnProperty") and "__proto__" are not among the inputs.
ObjectPrototypeNames == { "constructor" }

Namespaces == { "html", "css" } \cup ObjectPrototypeNames

DirectiveNames == { "x" }

Handles == { "h1", "h2" }

NodeIds == 1..Len(nodes)

(***************************************************************************)
(* Strings.                                                                *)
(***************************************************************************)
UpperChars == { "A", "B" }

\* String.prototype.toLowerCase on one character
toLowerCase(c) ==
    CASE c = "A" -> "a"
      [] c = "B" -> "b"
      [] OTHER   -> c

\* Case.kebab on a string of letters and digits: a capital that follows a
\* character that is no capital starts a new word; words are lower case and
\* joined by "-"
RECURSIVE KebabFrom(_, _)
KebabFrom(s, i) ==
    IF i > Len(s) THEN <<>>
    ELSE (IF i > 1 /\ s[i] \in UpperChars /\ s[i - 1] \notin UpperChars
          THEN <<"-", toLowerCase(s[i])>>
          ELSE <<toLowerCase(s[i])>>) \o KebabFrom(s, i + 1)

Kebab(s) == KebabFrom(s, 1)

\* Array.prototype.join
RECURSIVE Join(_, _)
Join(parts, sep) ==
    IF parts = <<>> THEN <<>>
    ELSE IF Len(parts) = 1 THEN parts[1]
    ELSE parts[1] \o sep \o Join(Tail(parts), sep)

(***************************************************************************)
(* Objects used as maps.                                                   *)
(***************************************************************************)
\* Object.prototype.hasOwnProperty
hasOwnProperty(obj, key) == \E i \in 1..Len(obj) : obj[i][1] = key

OwnIndex(obj, key) == CHOOSE i \in 1..Len(obj) : obj[i][1] = key

OwnValue(obj, key) == obj[OwnIndex(obj, key)][2]

\* Object.keys: own keys in insertion order
ObjectKeys(obj) == [i \in 1..Len(obj) |-> obj[i][1]]

\* obj[key] = value: an own key keeps its place, a new key goes last
Assign(obj, key, value) ==
    IF hasOwnProperty(obj, key)
    THEN [obj EXCEPT ![OwnIndex(obj, key)] = <<key, value>>]
    ELSE Append(obj, <<key, value>>)

\* (a merge that appends the source's entries, own keys of the target or not)
ObjectAssignAppends(target, source) == target \o source

\* Object.assign(target, source)
RECURSIVE ObjectAssign(_, _)
ObjectAssign(target, source) ==
    IF source = <<>> THEN target
    ELSE ObjectAssign(Assign(target, source[1][1], source[1][2]), Tail(source))

(***************************************************************************)
(* What a call hands back to its caller.                                   *)
(***************************************************************************)
NoRet == [op |-> "none", status |-> "ok", kind |-> "undefined", val |-> <<>>]

Returned(op, kind, val) ==
    [op |-> op, status |-> "ok", kind |-> kind, val |-> val]

Thrown(op) ==
    [op |-> op, status |-> "throw", kind |-> "TypeError", val |-> <<>>]

\* a value: a string, an object, undefined, or a member of Object.prototype
Value(kind, val) == [kind |-> kind, val |-> val]

Idle == [pc |-> "idle", op |-> "none", node |-> 0, list |-> <<>>, i |-> 0,
         tag |-> <<>>, mixedRules |-> <<>>, classes |-> <<>>]

(***************************************************************************)
(* constructor(name)                                                       *)
(***************************************************************************)
isCapitalizeFirstLetter(name) == toLowerCase(name[1]) # name[1]

\* (a constructor that stores the name as elementName of a block too)
NewNodeKeepsBothNames(name, content) ==
    [ name        |-> name,
      blockName   |-> IF isCapitalizeFirstLetter(name) THEN name ELSE <<>>,
      elementName |-> name,
      isBlock     |-> isCapitalizeFirstLetter(name),
      isElement   |-> ~isCapitalizeFirstLetter(name),
      _props      |-> <<>>,
      _content    |-> content,
      _mixins     |-> <<>>,
      _directives |-> <<>> ]

\* the fields the constructor assigns, lines 18 to 90
NewNode(name, content) ==
    [ name        |-> name,
      blockName   |-> IF isCapitalizeFirstLetter(name) THEN name ELSE <<>>,
      elementName |-> IF ~isCapitalizeFirstLetter(name) THEN name ELSE <<>>,
      isBlock     |-> isCapitalizeFirstLetter(name),
      isElement   |-> ~isCapitalizeFirstLetter(name),
      _props      |-> <<>>,
      _content    |-> content,
      _mixins     |-> <<>>,
      _directives |-> <<>> ]

\* name[0] of the empty string is undefined, and undefined.toLowerCase()
\* throws a TypeError before any field is assigned; otherwise the node gets
\* fresh empty _props, _content, _mixins and _directives
New(name) ==
    IF name = <<>>
    THEN /\ ret' = Thrown("new")
         /\ UNCHANGED <<nodes, heap, loop, written>>
    ELSE /\ heap' = Append(heap, <<>>)
         /\ nodes' = Append(nodes, NewNode(name, Len(heap) + 1))
         /\ written' = Append(written, {})
         /\ ret' = Returned("new", "node", <<Len(nodes) + 1>>)
         /\ UNCHANGED loop

(***************************************************************************)
(* Children.                                                               *)
(***************************************************************************)
\* this._content.push(node): the array this._content refers to grows, whoever
\* else refers to it
addChild(n, c) ==
    /\ heap' = [heap EXCEPT ![nodes[n]._content] = Append(@, c)]
    /\ ret' = NoRet
    /\ UNCHANGED <<nodes, loop, written>>

\* this._content = nodes: the reference is stored, the array is not copied
setChilds(n, ref) ==
    /\ nodes' = [nodes EXCEPT ![n]._content = ref]
    /\ ret' = NoRet
    /\ UNCHANGED <<heap, loop, written>>

\* return this._content: the stored reference
getChilds(n) ==
    /\ ret' = Returned("getChilds", "array", <<nodes[n]._content>>)
    /\ UNCHANGED <<nodes, heap, loop, written>>

\* the caller builds an array of nodes, to hand it to setChilds
CallerArray(list) ==
    /\ heap' = Append(heap, list)
    /\ ret' = NoRet
    /\ UNCHANGED <<nodes, loop, written>>

\* the children of a node as a reader of getChilds() finds them
Children(n) == heap[nodes[n]._content]

(***************************************************************************)
(* Mixins and directives.                                                  *)
(***************************************************************************)
addMixin(n, m) ==
    /\ nodes' = [nodes EXCEPT ![n]._mixins = Append(@, m)]
    /\ ret' = NoRet
    /\ UNCHANGED <<heap, loop, written>>

getMixines(n) == nodes[n]._mixins

addDirective(n, name, directive) ==
    /\ nodes' = [nodes EXCEPT ![n]._directives = Assign(@, name, directive)]
    /\ ret' = NoRet
    /\ UNCHANGED <<heap, loop, written>>

(***************************************************************************)
(* The property store.                                                     *)
(***************************************************************************)
\* this._props[name]: the own namespace, else what Object.prototype holds
\* under that name, else undefined
getPropNS(n, ns) ==
    IF hasOwnProperty(nodes[n]._props, ns)
    THEN Value("object", OwnValue(nodes[n]._props, ns))
    ELSE IF ns \in ObjectPrototypeNames
    THEN Value("inherited", <<>>)
    ELSE Value("undefined", <<>>)

hasPropNS(n, ns) == hasOwnProperty(nodes[n]._props, ns)

\* this.getPropNS(namespace)[name]: reading a property of undefined throws;
\* no name of PropNames is a member of what Object.prototype holds
getProp(n, ns, name) ==
    LET space == getPropNS(n, ns) IN
    IF space.kind = "undefined" THEN Thrown("getProp")
    ELSE IF space.kind = "object" /\ hasOwnProperty(space.val, name)
    THEN Returned("getProp", "string", OwnValue(space.val, name))
    ELSE Returned("getProp", "undefined", <<>>)

hasProp(n, ns, name) ==
    hasPropNS(n, ns) /\ hasOwnProperty(getPropNS(n, ns).val, name)

\* this._props after setProp(namespace, name, value)
PropsAfterSet(props, ns, name, value) ==
    LET created == IF ~hasOwnProperty(props, ns) THEN Assign(props, ns, <<>>)
                   ELSE props
    IN Assign(created, ns, Assign(OwnValue(created, ns), name, value))

setProp(n, ns, name, value) ==
    /\ nodes' = [nodes EXCEPT ![n]._props = PropsAfterSet(@, ns, name, value)]
    /\ written' = [written EXCEPT ![n] =
                      { t \in @ : ~(t[1] = ns /\ t[2] = name) }
                          \cup { <<ns, name, value>> }]
    /\ ret' = NoRet
    /\ UNCHANGED <<heap, loop>>

getPropNSCall(n, ns) ==
    /\ ret' = Returned("getPropNS", getPropNS(n, ns).kind, getPropNS(n, ns).val)
    /\ UNCHANGED <<nodes, heap, loop, written>>

hasPropNSCall(n, ns) ==
    /\ ret' = Returned("hasPropNS", "boolean", <<hasPropNS(n, ns)>>)
    /\ UNCHANGED <<nodes, heap, loop, written>>

getPropCall(n, ns, name) ==
    /\ ret' = getProp(n, ns, name)
    /\ UNCHANGED <<nodes, heap, loop, written>>

hasPropCall(n, ns, name) ==
    /\ ret' = Returned("hasProp", "boolean", <<hasProp(n, ns, name)>>)
    /\ UNCHANGED <<nodes, heap, loop, written>>

(***************************************************************************)
(* The derived computations over [this] ++ mixins.                         *)
(***************************************************************************)
\* (a list that goes on with the mixins of the mixins)
getAllMixedNodesDeep(n) ==
    <<n>> \o getMixines(n) \o
        Join([i \in 1..Len(getMixines(n)) |-> getMixines(getMixines(n)[i])], <<>>)

\* [this].concat(this.getMixines()): a new array, the mixins of a mixin are
\* not followed
getAllMixedNodes(n) == <<n>> \o getMixines(n)

DefaultTag == <<"d", "i", "v">>

\* (a turn that keeps the first tag found)
TagStepFirstWins(tag, node) ==
    IF tag = DefaultTag /\ hasProp(node, "html", TagKey)
    THEN getProp(node, "html", TagKey).val
    ELSE tag

\* one turn of the loop of getHtmlTag
TagStep(tag, node) ==
    IF hasProp(node, "html", TagKey)
    THEN getProp(node, "html", TagKey).val
    ELSE tag

RECURSIVE TagFold(_, _)
TagFold(list, tag) ==
    IF list = <<>> THEN tag ELSE TagFold(Tail(list), TagStep(tag, Head(list)))

getHtmlTag(n) == TagFold(getAllMixedNodes(n), DefaultTag)

\* one turn of the first loop of getCssMixedRules
RulesStep(mixedRules, node) ==
    IF hasPropNS(node, "css")
    THEN ObjectAssign(mixedRules, getPropNS(node, "css").val)
    ELSE mixedRules

RECURSIVE RulesFold(_, _)
RulesFold(list, mixedRules) ==
    IF list = <<>> THEN mixedRules
    ELSE RulesFold(Tail(list), RulesStep(mixedRules, Head(list)))

\* the second loop of getCssMixedRules and the join
RulesString(mixedRules) ==
    Join([i \in 1..Len(mixedRules) |->
            Kebab(ObjectKeys(mixedRules)[i]) \o <<":">>
                \o OwnValue(mixedRules, ObjectKeys(mixedRules)[i])],
         <<";">>)

getCssMixedRules(n) == RulesString(RulesFold(getAllMixedNodes(n), <<>>))

getHtmlClass(n) ==
    Kebab(nodes[n].blockName)
        \o (IF nodes[n].isElement
            THEN <<"_", "_">> \o Kebab(nodes[n].elementName)
            ELSE <<>>)

getHtmlMixedClass(n) ==
    Join([i \in 1..Len(getAllMixedNodes(n)) |->
            getHtmlClass(getAllMixedNodes(n)[i])],
         <<" ">>)

ClassAttr == <<"c", "l", "a", "s", "s">>

StylesAttr == <<"s", "t", "y", "l", "e", "s">>

\* name="value"
Attribute(name, value) == name \o <<"=", "\"">> \o value \o <<"\"">>

NonEmpty(attr) == Len(attr[2]) > 0

\* (a loop that keeps the attributes whose value is empty)
AttributesWithEmptyOnes(attrs) ==
    Join([i \in 1..Len(attrs) |-> Attribute(attrs[i][1], attrs[i][2])], <<" ">>)

\* the loop of _getAttributesString and the join
AttributesOf(attrs) ==
    Join([i \in 1..Len(SelectSeq(attrs, NonEmpty)) |->
            Attribute(SelectSeq(attrs, NonEmpty)[i][1],
                      SelectSeq(attrs, NonEmpty)[i][2])],
         <<" ">>)

_getAttributesString(n) ==
    AttributesOf(<< <<ClassAttr, getHtmlMixedClass(n)>>,
                    <<StylesAttr, getCssMixedRules(n)>> >>)

getHtmlTagStart(n) ==
    <<"<">> \o getHtmlTag(n) \o <<" ">> \o _getAttributesString(n) \o <<">">>

getHtmlTagEnd(n) == <<"<", "/">> \o getHtmlTag(n) \o <<">">>

\* (a computation that stores [this] ++ mixins as the mixin list)
ReturnsStoringMixed(op, n, value) ==
    /\ nodes' = [nodes EXCEPT ![n]._mixins = getAllMixedNodes(n)]
    /\ UNCHANGED <<heap, loop, written>>
    /\ ret' = Returned(op, "string", value)

\* a derived computation assigns no field of any node
Returns(op, n, value) ==
    /\ UNCHANGED <<nodes, heap, loop, written>>
    /\ ret' = Returned(op, "string", value)

getAllMixedNodesCall(n) ==
    /\ UNCHANGED <<nodes, heap, loop, written>>
    /\ ret' = Returned("getAllMixedNodes", "array", getAllMixedNodes(n))

getHtmlTagCall(n) == Returns("getHtmlTag", n, getHtmlTag(n))

getCssMixedRulesCall(n) == Returns("getCssMixedRules", n, getCssMixedRules(n))

getHtmlClassCall(n) == Returns("getHtmlClass", n, getHtmlClass(n))

getHtmlMixedClassCall(n) == Returns("getHtmlMixedClass", n, getHtmlMixedClass(n))

getHtmlTagStartCall(n) == Returns("getHtmlTagStart", n, getHtmlTagStart(n))

getHtmlTagEndCall(n) == Returns("getHtmlTagEnd", n, getHtmlTagEnd(n))

(***************************************************************************)
(* Sizes, for the bounds.                                                  *)
(***************************************************************************)
RECURSIVE Sum(_)
Sum(numbers) == IF numbers = <<>> THEN 0 ELSE Head(numbers) + Sum(Tail(numbers))

SumLen(seqs) == Sum([i \in 1..Len(seqs) |-> Len(seqs[i])])

EntriesOf(n) == SumLen([i \in 1..Len(nodes[n]._props) |-> nodes[n]._props[i][2]])

TotalEntries == Sum([n \in NodeIds |-> EntriesOf(n)])

TotalMixins == SumLen([n \in NodeIds |-> nodes[n]._mixins])

TotalDirectives == SumLen([n \in NodeIds |-> nodes[n]._directives])

TotalChilds == SumLen(heap)

(***************************************************************************)
(* The for-of loops over getAllMixedNodes(), one turn at a time            *)
(* (getHtmlTag, getCssMixedRules, getHtmlMixedClass).  The code is         *)
(* synchronous: nothing else runs while a loop is under way.               *)
(***************************************************************************)
LoopOps == { "getHtmlTag", "getCssMixedRules", "getHtmlMixedClass" }

\* the iterable is evaluated once, before the first turn
LoopBegin(op, n) ==
    /\ loop.pc = "idle"
    /\ loop' = [pc |-> "loop", op |-> op, node |-> n,
                list |-> getAllMixedNodes(n), i |-> 1,
                tag |-> DefaultTag, mixedRules |-> <<>>, classes |-> <<>>]
    /\ ret' = NoRet
    /\ UNCHANGED <<nodes, heap, written>>

LoopTurn ==
    /\ loop.pc = "loop"
    /\ loop.i <= Len(loop.list)
    /\ loop' = [loop EXCEPT
         !.i = @ + 1,
         !.tag = IF loop.op = "getHtmlTag"
                 THEN TagStep(@, loop.list[loop.i]) ELSE @,
         !.mixedRules = IF loop.op = "getCssMixedRules"
                        THEN RulesStep(@, loop.list[loop.i]) ELSE @,
         !.classes = IF loop.op = "getHtmlMixedClass"
                     THEN Append(@, getHtmlClass(loop.list[loop.i])) ELSE @]
    /\ UNCHANGED <<nodes, heap, ret, written>>

LoopEnd ==
    /\ loop.pc = "loop"
    /\ loop.i > Len(loop.list)
    /\ ret' = Returned(loop.op, "string",
                 CASE loop.op = "getHtmlTag" -> loop.tag
                   [] loop.op = "getCssMixedRules" -> RulesString(loop.mixedRules)
                   [] OTHER -> Join(loop.classes, <<" ">>))
    /\ loop' = Idle
    /\ UNCHANGED <<nodes, heap, written>>

(***************************************************************************)
(* Specifications.                                                         *)
(***************************************************************************)
\* the state after  names[1], names[2], ...  were constructed
Built(names) ==
    /\ nodes = [i \in 1..Len(names) |-> NewNode(names[i], i)]
    /\ heap = [i \in 1..Len(names) |-> <<>>]
    /\ written = [i \in 1..Len(names) |-> {}]
    /\ ret = NoRet
    /\ loop = Idle

\* Spec: construction and every mutator
TotalSize == TotalEntries + TotalMixins + TotalDirectives + TotalChilds

Init == Built(<<>>)

Next ==
    \/ \E name \in Names : Len(nodes) < MaxNodes /\ New(name)
    \/ \E n \in NodeIds, ns \in Namespaces, value \in Values :
          /\ hasProp(n, ns, TagKey) \/ TotalSize < MaxSize
          /\ setProp(n, ns, TagKey, value)
    \/ \E n \in NodeIds, m \in NodeIds : TotalSize < MaxSize /\ addMixin(n, m)
    \/ \E n \in NodeIds, name \in DirectiveNames, h \in Handles :
          /\ hasOwnProperty(nodes[n]._directives, name) \/ TotalSize < MaxSize
          /\ addDirective(n, name, h)
    \/ \E n \in NodeIds, c \in NodeIds : TotalSize < MaxSize /\ addChild(n, c)
    \/ \E n \in NodeIds, ref \in 1..Len(heap) : setChilds(n, ref)

Spec == Init /\ [][Next]_vars

\* SpecStore: the property store of two nodes
InitStore == Built(<< <<"B">>, <<"a">> >>)

NextStore ==
    \/ \E n \in NodeIds, ns \in Namespaces, name \in PropNames, value \in Values :
          /\ hasProp(n, ns, name) \/ TotalEntries < StoreEntries
          /\ setProp(n, ns, name, value)
    \/ \E n \in NodeIds, ns \in Namespaces : getPropNSCall(n, ns)
    \/ \E n \in NodeIds, ns \in Namespaces : hasPropNSCall(n, ns)
    \/ \E n \in NodeIds, ns \in Namespaces, name \in PropNames :
          getPropCall(n, ns, name)
    \/ \E n \in NodeIds, ns \in Namespaces, name \in PropNames :
          hasPropCall(n, ns, name)

SpecStore == InitStore /\ [][NextStore]_vars

\* SpecTree: the children of two nodes and the arrays a caller holds
InitTree == Built(<< <<"B">>, <<"a">> >>)

NextTree ==
    \/ \E n \in NodeIds, c \in NodeIds : TotalChilds < TreeChilds /\ addChild(n, c)
    \/ \E n \in NodeIds, ref \in 1..Len(heap) : setChilds(n, ref)
    \/ \E n \in NodeIds : getChilds(n)
    \/ \E list \in { <<>> } \cup { <<c>> : c \in NodeIds } :
          /\ Len(heap) < Len(nodes) + TreeArrays
          /\ TotalChilds + Len(list) <= TreeChilds
          /\ CallerArray(list)

SpecTree == InitTree /\ [][NextTree]_vars

\* SpecMix: a block and two elements, their tag and css properties and
\* their mixin lists, each node mixing in the other two (SpecRender and
\* SpecFold have the node that is its own mixin)
MixProps == { <<"html", TagKey>>, <<"css", CamelKey>> }

InitMix == Built(<< <<"B">>, <<"a">>, <<"a", "B">> >>)

NextMix ==
    \/ \E n \in NodeIds, p \in MixProps, value \in Values :
          /\ hasProp(n, p[1], p[2]) \/ TotalEntries < MixEntries
          /\ setProp(n, p[1], p[2], value)
    \/ \E n \in NodeIds : \E m \in NodeIds \ {n} :
          TotalMixins < MixMixins /\ addMixin(n, m)
    \/ \E n \in NodeIds : getHtmlTagCall(n)
    \/ \E n \in NodeIds : getCssMixedRulesCall(n)

SpecMix == InitMix /\ [][NextMix]_vars

\* SpecRender: a block or an element, a second element, and everything that
\* is rendered
RenderNames == { <<"B">>, <<"a", "B">> }

RenderProps == { <<"html", TagKey>>, <<"css", CamelKey>>, <<"css", TagKey>> }

InitRender == \E first \in RenderNames : Built(<<first, <<"a">> >>)

NextRender ==
    \/ \E n \in NodeIds, p \in RenderProps, value \in Values :
          /\ hasProp(n, p[1], p[2]) \/ TotalEntries < RenderEntries
          /\ setProp(n, p[1], p[2], value)
    \/ \E n \in NodeIds, m \in NodeIds : TotalMixins < RenderMixins /\ addMixin(n, m)
    \/ \E n \in NodeIds : getAllMixedNodesCall(n)
    \/ \E n \in NodeIds : getHtmlTagCall(n)
    \/ \E n \in NodeIds : getCssMixedRulesCall(n)
    \/ \E n \in NodeIds : getHtmlClassCall(n)
    \/ \E n \in NodeIds : getHtmlMixedClassCall(n)
    \/ \E n \in NodeIds : getHtmlTagStartCall(n)
    \/ \E n \in NodeIds : getHtmlTagEndCall(n)

SpecRender == InitRender /\ [][NextRender]_vars

\* SpecFold: the loops turn by turn over any mixin graph of three nodes; a
\* loop that was begun runs on, nothing pre-empts it
InitFold == Built(<< <<"B">>, <<"a">>, <<"a", "B">> >>)

NextFold ==
    \/ \E n \in NodeIds, m \in NodeIds :
          loop.pc = "idle" /\ TotalMixins < FoldMixins /\ addMixin(n, m)
    \/ \E op \in LoopOps, n \in NodeIds : LoopBegin(op, n)
    \/ LoopTurn
    \/ LoopEnd

SpecFold == InitFold /\ [][NextFold]_vars /\ WF_vars(LoopTurn) /\ WF_vars(LoopEnd)

(***************************************************************************)
(* Properties.                                                             *)
(***************************************************************************)
\* the parts of s between the separators sep
RECURSIVE SplitOn(_, _, _)
SplitOn(s, sep, part) ==
    IF s = <<>> THEN <<part>>
    ELSE IF Head(s) = sep THEN <<part>> \o SplitOn(Tail(s), sep, <<>>)
    ELSE SplitOn(Tail(s), sep, Append(part, Head(s)))

Parts(s, sep) == IF s = <<>> THEN <<>> ELSE SplitOn(s, sep, <<>>)

Contains(s, sub) ==
    \E i \in 0..(Len(s) - Len(sub)) : SubSeq(s, i + 1, i + Len(sub)) = sub

\* the places of [n] ++ mixins whose node had setProp(ns, name, _) executed
Setters(n, ns, name) ==
    LET mixed == <<n>> \o nodes[n]._mixins
    IN { i \in 1..Len(mixed) :
           \E t \in written[mixed[i]] : t[1] = ns /\ t[2] = name }

\* the value of the last of them
LastWritten(n, ns, name) ==
    LET mixed == <<n>> \o nodes[n]._mixins
        last  == CHOOSE i \in Setters(n, ns, name) :
                     \A j \in Setters(n, ns, name) : j <= i
    IN (CHOOSE t \in written[mixed[last]] : t[1] = ns /\ t[2] = name)[3]

CssKeysSet(n) == { k \in PropNames : Setters(n, "css", k) # {} }

\* C1: the tag is the value of the last node of [self] ++ mixins that set
\* ("html","tag"), "div" when none did; the css rules hold, for every key
\* that some node of [self] ++ mixins set, exactly one entry, with the value
\* of the last node that set it, and no entry for any other key
C1_MixinPriority ==
    \A n \in NodeIds :
        /\ getHtmlTag(n) = IF Setters(n, "html", TagKey) = {} THEN DefaultTag
                           ELSE LastWritten(n, "html", TagKey)
        /\ LET rules == Parts(getCssMixedRules(n), ";")
           IN /\ Len(rules) = Cardinality(CssKeysSet(n))
              /\ { rules[i] : i \in 1..Len(rules) } =
                     { Kebab(k) \o <<":">> \o LastWritten(n, "css", k) :
                         k \in CssKeysSet(n) }

\* C1 witness: A with mixins B then C, all three set the tag, C's value is
\* not A's, and getHtmlTag() has returned C's value
C1_Witness ==
    \E a \in NodeIds, b \in NodeIds, c \in NodeIds :
        /\ a # b /\ b # c /\ a # c
        /\ nodes[a]._mixins = <<b, c>>
        /\ Setters(a, "html", TagKey) = {1, 2, 3}
        /\ getProp(a, "html", TagKey).val # getProp(c, "html", TagKey).val
        /\ ret = Returned("getHtmlTag", "string", getProp(c, "html", TagKey).val)

StyleAttr == <<"s", "t", "y", "l", "e">>

\* C2: the tag start is "<" tag " " attributes ">", the attributes being
\* class="<mixed class>" then style="<css rules>", each present iff its
\* value is not empty, joined by one space
C2_AttributeString ==
    \A n \in NodeIds :
        LET class == IF getHtmlMixedClass(n) = <<>> THEN <<>>
                     ELSE << ClassAttr \o <<"=", "\"">> \o getHtmlMixedClass(n)
                                \o <<"\"">> >>
            style == IF getCssMixedRules(n) = <<>> THEN <<>>
                     ELSE << StyleAttr \o <<"=", "\"">> \o getCssMixedRules(n)
                                \o <<"\"">> >>
        IN getHtmlTagStart(n) =
               <<"<">> \o getHtmlTag(n) \o <<" ">> \o Join(class \o style, <<" ">>)
                   \o <<">">>

\* a node on which no property was set and to which no mixin was added
Bare(n) == written[n] = {} /\ nodes[n]._mixins = <<>>

\* C3, as claimed: the tag start of a bare node holds neither a class nor a
\* style attribute
C3_NoAttributes ==
    [][\A n \in NodeIds :
         getHtmlTagStartCall(n) /\ Bare(n) =>
           /\ ~Contains(ret'.val, ClassAttr \o <<"=">>)
           /\ ~Contains(ret'.val, StyleAttr)
      ]_vars

\* C3, amended: the tag start of a bare node is <div class="C">, C the
\* node's own class (the kebab-cased name, after "__" for an element); it
\* holds no style attribute
C3_ClassOnly ==
    \A n \in NodeIds :
        Bare(n) =>
          /\ getHtmlTagStart(n) =
                <<"<", "d", "i", "v", " ">> \o ClassAttr \o <<"=", "\"">>
                  \o (IF nodes[n].isBlock THEN <<>> ELSE <<"_", "_">>)
                  \o Kebab(nodes[n].name) \o <<"\"", ">">>
          /\ ~Contains(getHtmlTagStart(n), StyleAttr)

\* C3 witness: getHtmlTagStart() has returned for a bare element
C3_Witness ==
    \E n \in NodeIds :
        /\ Bare(n) /\ nodes[n].isElement
        /\ ret = Returned("getHtmlTagStart", "string", getHtmlTagStart(n))

\* the classification of a node
Classified(n) ==
    /\ nodes[n].isBlock # nodes[n].isElement
    /\ nodes[n].isBlock <=> nodes[n].blockName # <<>>
    /\ nodes[n].isElement <=> nodes[n].elementName # <<>>
    /\ nodes[n].isBlock =>
          nodes[n].blockName = nodes[n].name /\ nodes[n].elementName = <<>>
    /\ nodes[n].isElement =>
          nodes[n].elementName = nodes[n].name /\ nodes[n].blockName = <<>>

\* new CombineNode(name) returned a node of that name
Constructed(name) ==
    /\ ret.op = "new" /\ ret.status = "ok" /\ ret.kind = "node"
    /\ ret.val = <<Len(nodes)>>
    /\ nodes[Len(nodes)].name = name

C5_MissingNamespace ==
    [][\A n \in NodeIds, ns \in Namespaces, name \in PropNames :
         /\ getPropCall(n, ns, name) =>
               /\ ret'.status = "throw" <=> ~\E t \in written[n] : t[1] = ns
               /\ UNCHANGED <<nodes, heap, written>>
         /\ hasPropCall(n, ns, name) =>
               /\ ret'.status = "ok"
               /\ ret'.val = << \E t \in written[n] : t[1] = ns /\ t[2] = name >>
      ]_vars

\* C6: a namespace exists iff a setProp was executed under it; getPropNS
\* gives undefined when none was, and else a non-empty object that holds,
\* for each name set under it, the value of the latest setProp
C6_NamespaceExists ==
    \A n \in NodeIds, ns \in Namespaces :
        LET under == { t \in written[n] : t[1] = ns } IN
        /\ hasPropNS(n, ns) <=> under # {}
        /\ under = {} => getPropNS(n, ns).kind = "undefined"
        /\ under # {} =>
              /\ getPropNS(n, ns).kind = "object"
              /\ getPropNS(n, ns).val # <<>>
              /\ \A t \in under :
                    /\ hasOwnProperty(getPropNS(n, ns).val, t[2])
                    /\ OwnValue(getPropNS(n, ns).val, t[2]) = t[3]

\* the css properties set on a node
CssWritten(n) == { t \in written[n] : t[1] = "css" }

\* the css rules of a node alone, from its own css namespace
OwnRules(n) ==
    LET css == IF hasPropNS(n, "css") THEN getPropNS(n, "css").val ELSE <<>>
    IN Join([i \in 1..Len(css) |-> Kebab(css[i][1]) \o <<":">> \o css[i][2]],
            <<";">>)

\* C7: when every mixin of a node (the node itself, or another node) has
\* the css properties of the node, the css rules are those of the node with
\* no mixin: same entries, same order, none twice
C7_CssIdempotent ==
    \A n \in NodeIds :
        (\A i \in 1..Len(nodes[n]._mixins) :
             CssWritten(nodes[n]._mixins[i]) = CssWritten(n))
            => getCssMixedRules(n) = OwnRules(n)

\* C7 witness: a node with two css properties is its own mixin, and
\* getCssMixedRules() has returned its two rules
C7_Witness ==
    \E n \in NodeIds :
        /\ nodes[n]._mixins = <<n>>
        /\ Cardinality(CssWritten(n)) = 2
        /\ ret = Returned("getCssMixedRules", "string", getCssMixedRules(n))
        /\ Len(Parts(ret.val, ";")) = 2

\* C8: a loop over the mixed nodes visits the node and then its own mixins,
\* 1 + (length of its mixin list) nodes and no mixin of a mixin, and every
\* loop that began ends, whatever the mixin graph
C8_LoopsEnd ==
    /\ [](loop.pc = "loop" =>
            /\ loop.list = <<loop.node>> \o nodes[loop.node]._mixins
            /\ loop.i <= 1 + Len(nodes[loop.node]._mixins) + 1)
    /\ [][LoopEnd => loop.i - 1 = 1 + Len(nodes[loop.node]._mixins)]_vars
    /\ (loop.pc = "loop") ~> (loop.pc = "idle")

\* C8 witness: two nodes are each other's mixin and a loop over one of them
\* has taken its last turn
C8_Witness ==
    \E n \in NodeIds, m \in NodeIds :
        /\ n # m
        /\ nodes[n]._mixins = <<m>> /\ nodes[m]._mixins = <<n>>
        /\ loop.pc = "loop" /\ loop.node = n /\ loop.i = 3

\* C9: addChild(c) on P appends c to P's children and leaves the children
\* of every other node and every array a caller built as they were;
\* setChilds on P changes the children of P alone
C9_ExclusiveChildren ==
    [][/\ \A p \in NodeIds, c \in NodeIds :
            addChild(p, c) =>
              /\ Children(p)' = Append(Children(p), c)
              /\ \A q \in NodeIds \ {p} : Children(q)' = Children(q)
              /\ \A a \in (Len(nodes) + 1)..Len(heap) : heap'[a] = heap[a]
       /\ \A p \in NodeIds, ref \in 1..Len(heap) :
            setChilds(p, ref) =>
              \A q \in NodeIds \ {p} : Children(q)' = Children(q)
      ]_vars

\* a call of a derived computation on n
DerivedCall(n) ==
    \/ getAllMixedNodesCall(n)
    \/ getHtmlTagCall(n)
    \/ getCssMixedRulesCall(n)
    \/ getHtmlClassCall(n)
    \/ getHtmlMixedClassCall(n)
    \/ getHtmlTagStartCall(n)
    \/ getHtmlTagEndCall(n)

====
